---- MODULE Spec2Model ----
(***************************************************************************)
(* Model of the lancer TCP load balancer (src/bin/load_balancer.rs): the   *)
(* connection pool, the round-robin selector find_available_server and the *)
(* per-connection handler handle_connection, with the three mutexes that   *)
(* main creates (servers, counter, pool).                                  *)
(***************************************************************************)
EXTENDS Integers, Sequences, FiniteSets, TLC

\* ------------------------------------------------------------------ bounds
\* Number of client connections the listener accepts in a concurrent run.
MaxRequests == 3
\* Number of client connections accepted in a run that handles them one
\* after another.
MaxSeqRequests == 4
\* Number of client connections accepted in a run checked for progress.
MaxFairRequests == 2
\* Largest number of handler threads in flight at the same time.
MaxInFlight == 2
\* Number of times the set of reachable backends changes in a run.
MaxChanges == 2

\* Connections accepted in the run that follows the bytes of each request.
MaxByteRequests == 1

\* Longest short message, and the largest byte value, of that run.
MaxPayload == 2

MaxByte == 2

\* Longest collection a single call of a pool operation is applied to.
MaxEntries == 4

\* --------------------------------------------------------------- constants
\* main: the statically configured backend list (rotation order).
servers == <<"127.0.0.1:8081", "127.0.0.1:8082", "127.0.0.1:8083">>

N == Len(servers)

\* main: let counter = Arc::new(Mutex::new(0));
StartCursor == 0

\* handle_connection: let mut buffer = [0; 1024];
BufferSize == 1024

\* Handler threads; a thread slot is reused once its handler has returned.
Handlers == 1..MaxInFlight

\* The three mutexes created by main.
LockNames == {"servers", "counter", "pool"}

\* No TcpStream (the handler's server_stream before line 141, or after a move).
NoSock == [id |-> 0, eof |-> FALSE]

\* enum PooledConnection: InUse carries no socket, Idle(TcpStream) owns one.
InUse == [tag |-> "InUse", socket |-> NoSock]

Idle(stream) == [tag |-> "Idle", socket |-> stream]

VARIABLES
    pc,            \* handler -> position in handle_connection
    counter,       \* the shared rotation cursor (Mutex<usize>)
    pool,          \* ConnectionPool.connections: server -> Vec<PooledConnection>
    locks,         \* mutex -> handler holding it, 0 when free
    up,            \* environment: backends currently accepting connections
    nextSock,      \* identity given to the next TcpStream that connects
    accepted,      \* number of connections the listener has accepted
    start_index,   \* find_available_server local, per handler
    scan_i,        \* find_available_server loop variable i, per handler
    server_addr,   \* handle_connection local: the selected server ("" = none)
    server_stream, \* handle_connection local: the TcpStream it owns
    \* history (observation only; never read by the actions' guards)
    selLog,        \* indices returned by successful selections, in order
    attempts,      \* handler -> <<index, ok>> of each acquire of its selection
    nAcquired,     \* handler -> successful get_connection calls made for it
    inUse0,        \* handler -> in-use entries per server when its selection began
    evicted,       \* socket ids removed after a failed liveness probe
    broken,        \* socket ids dropped by a handler after a forward failure
    released,      \* server -> id of the socket most recently released (0 = none)
    owner,         \* server -> ids of the streams handed out for its in-use
                   \* entries, in the entries' order
    changes,       \* times the set of reachable backends has changed
    io,            \* handler -> the bytes of its request and response
    payloads,      \* environment: the requests a client may send
    responses,     \* environment: the responses a backend may produce
    call,          \* a single call of a pool operation: its arguments
    ret            \* a single call of a pool operation: its result

vars == <<pc, counter, pool, locks, up, nextSock, accepted, start_index, scan_i,
          server_addr, server_stream, selLog, attempts, nAcquired, inUse0,
          evicted, broken, released, owner, changes, io, payloads, responses,
          call, ret>>

\* What no step of the load balancer changes.
outside == <<payloads, responses, call, ret>>

hist == <<selLog, attempts, nAcquired, inUse0, evicted, broken, released,
          owner>>

AllServers == {servers[k] : k \in 1..N}

\* servers[index] with Rust's 0-based indexing.
ServerAt(index) == servers[index + 1]

Terminal == {"done", "unavailable", "failed"}

InFlight == {h \in Handlers : pc[h] \notin Terminal \cup {"idle"}}

\* ------------------------------------------------------- connection pool

\* connections.entry(server).or_insert_with(Vec::new)
Entry(p, server) == IF server \in DOMAIN p THEN p[server] ELSE << >>

\* Vec::remove(i), 1-based here.
RemoveAt(conns, i) == [k \in 1..(Len(conns) - 1) |->
                          IF k < i THEN conns[k] ELSE conns[k + 1]]

\* check_connection_health: the probe request is written and one read must
\* return size > 0 containing "200 OK".  A stream on which the peer has
\* already signalled end-of-stream reads Ok(0); otherwise the answer is the
\* backend's (answers).
check_connection_health(stream, answers) == (~stream.eof) /\ answers

\* Variant of the loop that steps over an entry whose probe failed instead of
\* removing it.
RECURSIVE ScanIdleKeep(_, _, _)
ScanIdleKeep(conns, i, answers) ==
    IF i > Len(conns)
    THEN [found |-> FALSE, conns |-> conns, socket |-> NoSock, removed |-> {}]
    ELSE IF conns[i].tag = "Idle"
         THEN IF check_connection_health(conns[i].socket, answers)
              THEN [found |-> TRUE,
                    conns |-> [conns EXCEPT ![i] = InUse],
                    socket |-> conns[i].socket,
                    removed |-> {}]
              ELSE LET r == ScanIdleKeep(conns, i + 1, answers)
                   IN  [r EXCEPT !.removed = @ \cup {conns[i].socket.id}]
         ELSE ScanIdleKeep(conns, i + 1, answers)

\* Variant of the loop that moves on by one after a removal, stepping over
\* the entry that took the removed entry's place.
RECURSIVE ScanIdleSkipNext(_, _, _)
ScanIdleSkipNext(conns, i, answers) ==
    IF i > Len(conns)
    THEN [found |-> FALSE, conns |-> conns, socket |-> NoSock, removed |-> {}]
    ELSE IF conns[i].tag = "Idle"
         THEN IF check_connection_health(conns[i].socket, answers)
              THEN [found |-> TRUE,
                    conns |-> [conns EXCEPT ![i] = InUse],
                    socket |-> conns[i].socket,
                    removed |-> {}]
              ELSE LET r == ScanIdleSkipNext(RemoveAt(conns, i), i + 1, answers)
                   IN  [r EXCEPT !.removed = @ \cup {conns[i].socket.id}]
         ELSE ScanIdleSkipNext(conns, i + 1, answers)

\* The while loop of get_connection from position i on.
RECURSIVE ScanIdle(_, _, _)
ScanIdle(conns, i, answers) ==
    IF i > Len(conns)
    THEN [found |-> FALSE, conns |-> conns, socket |-> NoSock, removed |-> {}]
    ELSE IF conns[i].tag = "Idle"
         THEN IF check_connection_health(conns[i].socket, answers)
              THEN [found |-> TRUE,
                    conns |-> [conns EXCEPT ![i] = InUse],
                    socket |-> conns[i].socket,
                    removed |-> {}]
              ELSE LET r == ScanIdle(RemoveAt(conns, i), i, answers)
                   IN  [r EXCEPT !.removed = @ \cup {conns[i].socket.id}]
         ELSE ScanIdle(conns, i + 1, answers)

\* Variant of the tail that records the in-use entry before connecting.
ConnectNewPushFirst(conns, connects, id) ==
    IF connects
    THEN [ok |-> TRUE, conns |-> Append(conns, InUse),
          socket |-> [id |-> id, eof |-> FALSE], opened |-> TRUE]
    ELSE [ok |-> FALSE, conns |-> Append(conns, InUse), socket |-> NoSock,
          opened |-> FALSE]

\* The tail of get_connection: TcpStream::connect_timeout(..)? and the push.
ConnectNew(conns, connects, id) ==
    IF connects
    THEN [ok |-> TRUE, conns |-> Append(conns, InUse),
          socket |-> [id |-> id, eof |-> FALSE], opened |-> TRUE]
    ELSE [ok |-> FALSE, conns |-> conns, socket |-> NoSock, opened |-> FALSE]

\* ConnectionPool::get_connection on one server's collection.
\*   answers : the backend answers a liveness probe on a live stream
\*   connects: a new connection to the backend is accepted
\*   id      : identity of the stream a successful connect yields
get_connection(conns, answers, connects, id) ==
    LET s == ScanIdle(conns, 1, answers)
    IN  IF s.found
        THEN [ok |-> TRUE, conns |-> s.conns, socket |-> s.socket,
              removed |-> s.removed, opened |-> FALSE]
        ELSE LET c == ConnectNew(s.conns, connects, id)
             IN  [ok |-> c.ok, conns |-> c.conns, socket |-> c.socket,
                  removed |-> s.removed, opened |-> c.opened]

\* Position of the first InUse entry (iter_mut().find(..)), 0 when none.
FirstInUse(conns) ==
    IF \E k \in 1..Len(conns) : conns[k].tag = "InUse"
    THEN CHOOSE k \in 1..Len(conns) :
            /\ conns[k].tag = "InUse"
            /\ \A j \in 1..(k - 1) : conns[j].tag # "InUse"
    ELSE 0

\* Variant: a stream that matches no in-use entry is kept as a new idle entry.
release_connectionKeep(p, server, stream, addrOk) ==
    IF server \in DOMAIN p /\ addrOk /\ FirstInUse(p[server]) # 0
    THEN [p EXCEPT ![server][FirstInUse(p[server])] = Idle(stream)]
    ELSE (server :> Append(Entry(p, server), Idle(stream))) @@ p

\* ConnectionPool::release_connection; addrOk is stream.peer_addr().is_ok().
\* When nothing is written the stream is dropped at the end of the call.
release_connection(p, server, stream, addrOk) ==
    IF server \in DOMAIN p /\ addrOk /\ FirstInUse(p[server]) # 0
    THEN [p EXCEPT ![server][FirstInUse(p[server])] = Idle(stream)]
    ELSE p

\* Observation of get_connection: the ids of the streams handed out for the
\* in-use entries of a collection (owners, in the entries' order) after a
\* call on conns that returned r.  A new connection's entry is pushed last;
\* a reused idle entry keeps its place among the in-use entries.
OwnersAfterGet(owners, conns, answers, r) ==
    IF r.opened THEN Append(owners, r.socket.id)
    ELSE IF ~r.ok THEN owners
    ELSE LET at == CHOOSE k \in 1..Len(conns) :
                      /\ conns[k].tag = "Idle"
                      /\ check_connection_health(conns[k].socket, answers)
                      /\ \A j \in 1..(k - 1) :
                            ~(/\ conns[j].tag = "Idle"
                              /\ check_connection_health(conns[j].socket, answers))
             before == Cardinality({j \in 1..(at - 1) : conns[j].tag = "InUse"})
         IN  SubSeq(owners, 1, before) \o <<r.socket.id>>
                \o SubSeq(owners, before + 1, Len(owners))

InUseCount(conns) == Cardinality({k \in 1..Len(conns) : conns[k].tag = "InUse"})

IdleIds(conns) == {conns[k].socket.id : k \in {j \in 1..Len(conns) : conns[j].tag = "Idle"}}

\* ------------------------------------------------------------------ bytes

\* The bytes of one request as the handler and its peers see them:
\*   sent     what the client wrote on its connection
\*   buffer   the handler's buffer after its read: the bytes read (the rest
\*            of the BufferSize bytes stay 0)
\*   got      what the backend has received on the connection of the request
\*   response what read_to_end accumulated from the backend
\*   recv     what the client has received
NoIo == [sent |-> << >>, buffer |-> << >>, got |-> << >>, response |-> << >>,
         recv |-> << >>]

Min(a, b) == IF a < b THEN a ELSE b

\* buffer[k - 1] of a buffer holding the bytes read, 1-based here.
BufAt(read, k) == IF k <= Len(read) THEN read[k] ELSE 0

\* Variant: the whole buffer is written, not only the bytes read.
ForwardedWhole(read) == [k \in 1..BufferSize |-> BufAt(read, k)]

\* &buffer[..bytes_read], the slice write_all is given.
Forwarded(read) == [k \in 1..Len(read) |-> BufAt(read, k)]

\* The probe request check_connection_health writes on a pooled stream before
\* the stream is handed out (one symbol stands for its bytes).
HealthRequest == <<"GET /health HTTP/1.1">>

Bytes == 1..MaxByte

\* The short messages: every non-empty byte sequence of at most MaxPayload
\* bytes.
Messages == UNION {[1..n -> Bytes] : n \in 1..MaxPayload}

\* A request one byte longer than the handler's buffer.
LongRequest == [k \in 1..(BufferSize + 1) |-> 1]

\* The counts a single read of a client that sent `sent` bytes may return:
\* the bytes that have arrived, which is a short first segment or everything,
\* cut to the size of the buffer.
ReadSizes(sent) ==
    {n \in 1..Min(sent, BufferSize) : n <= MaxPayload \/ n = Min(sent, BufferSize)}

\* The single request and response of the runs that do not look at bytes.
OneMessage == {<<1>>}

\* ------------------------------------------------------------------ state

InitProgram ==
    /\ pc = [h \in Handlers |-> "idle"]
    /\ counter = StartCursor
    /\ pool = [s \in {} |-> << >>]
    /\ locks = [l \in LockNames |-> 0]
    /\ up = AllServers
    /\ nextSock = 1
    /\ accepted = 0
    /\ start_index = [h \in Handlers |-> 0]
    /\ scan_i = [h \in Handlers |-> 0]
    /\ server_addr = [h \in Handlers |-> ""]
    /\ server_stream = [h \in Handlers |-> NoSock]
    /\ selLog = << >>
    /\ attempts = [h \in Handlers |-> << >>]
    /\ nAcquired = [h \in Handlers |-> 0]
    /\ inUse0 = [h \in Handlers |-> [s \in AllServers |-> 0]]
    /\ evicted = {}
    /\ broken = {}
    /\ released = [s \in AllServers |-> 0]
    /\ owner = [s \in AllServers |-> << >>]
    /\ changes = 0
    /\ io = [h \in Handlers |-> NoIo]


\* No call of a pool operation on its own.
NoCall == [op |-> "none"]

NoRet == [op |-> "none"]

\* The state after main has built the listener, the backend list, the cursor
\* and the pool; clients send and backends answer one fixed message.
Init ==
    /\ InitProgram
    /\ payloads = OneMessage
    /\ responses = OneMessage
    /\ call = NoCall
    /\ ret = NoRet

\* The same program state; clients send any short message or the long
\* request, backends answer any short message.
InitBytes ==
    /\ InitProgram
    /\ payloads = Messages \cup {LongRequest}
    /\ responses = Messages
    /\ call = NoCall
    /\ ret = NoRet

\* The entries a collection can hold: in-use, idle on a live stream, idle on
\* a stream whose peer has closed; the stream of the entry at position k has
\* identity k.
EntryKinds == {"InUse", "IdleLive", "IdleClosed"}

EntryOf(kind, k) ==
    IF kind = "InUse" THEN InUse
    ELSE Idle([id |-> k, eof |-> (kind = "IdleClosed")])

Collections ==
    UNION {{[k \in 1..n |-> EntryOf(kinds[k], k)] : kinds \in [1..n -> EntryKinds]}
              : n \in 0..MaxEntries}

\* The stream a single call connects or is given.
NewId == MaxEntries + 1

\* The single calls: get_connection on a collection, and release_connection
\* on a pool that has the collection for the backend or no collection at all.
Calls ==
    [op : {"get"}, conns : Collections, answers : BOOLEAN, connects : BOOLEAN]
    \cup [op : {"release"}, conns : Collections, tracked : BOOLEAN,
          addrOk : BOOLEAN]

\* A pool operation is about to be called on its own.
InitPool ==
    /\ InitProgram
    /\ payloads = OneMessage
    /\ responses = OneMessage
    /\ call \in Calls
    /\ ret = NoRet

\* --------------------------------------------------------------- mutexes

\* Variant: a lock that excludes nobody.
CanLockAlways(l) == TRUE

\* Mutex::lock returns only while no other thread holds the mutex.
CanLock(l) == locks[l] = 0

\* Variant: the guards outlive the call.
DropGuardsNone(h) == locks

\* Variant: the pool guard outlives the call.
DropGuardsLeakPool(h) ==
    [l \in LockNames |-> IF locks[l] = h /\ l # "pool" THEN 0 ELSE locks[l]]

\* The guards of find_available_server are dropped together when it returns.
DropGuards(h) == [l \in LockNames |-> IF locks[l] = h THEN 0 ELSE locks[l]]

\* ------------------------------------------------- find_available_server

\* Variant: the scan starts one position after the cursor.
CandidateIndexSkip(start, i) == (start + i + 1) % N

\* let index = (start_index + i) % servers.len();
CandidateIndex(start, i) == (start + i) % N

\* Variant: the cursor is left on the selected backend.
NextCursorStuck(index) == index

\* Variant: the cursor is stored reduced modulo the length of the list.
NextCursorWrap(index) == (index + 1) % N

\* *counter = index + 1;
NextCursor(index) == index + 1

\* Variant: the cursor moves past every candidate tried.
CursorAfterAlways(cur, index, ok) == NextCursor(index)

\* The cursor after the acquire on the candidate at index: written inside
\* the Ok arm only.
CursorAfter(cur, index, ok) == IF ok THEN NextCursor(index) ELSE cur

\* let servers = servers.lock().unwrap();
LockServers(h) ==
    /\ pc[h] = "lock_servers"
    /\ CanLock("servers")
    /\ locks' = [locks EXCEPT !["servers"] = h]
    /\ pc' = [pc EXCEPT ![h] = "lock_counter"]
    /\ UNCHANGED <<io, outside>>
    /\ UNCHANGED <<counter, pool, up, nextSock, accepted, start_index, scan_i,
                   server_addr, server_stream, hist, changes>>

\* let mut counter = counter.lock().unwrap();
LockCounter(h) ==
    /\ pc[h] = "lock_counter"
    /\ CanLock("counter")
    /\ locks' = [locks EXCEPT !["counter"] = h]
    /\ pc' = [pc EXCEPT ![h] = "lock_pool"]
    /\ UNCHANGED <<io, outside>>
    /\ UNCHANGED <<counter, pool, up, nextSock, accepted, start_index, scan_i,
                   server_addr, server_stream, hist, changes>>

\* let mut pool = pool.lock().unwrap();
\* let start_index = *counter % servers.len();
LockPool(h) ==
    /\ pc[h] = "lock_pool"
    /\ CanLock("pool")
    /\ locks' = [locks EXCEPT !["pool"] = h]
    /\ start_index' = [start_index EXCEPT ![h] = counter % N]
    /\ scan_i' = [scan_i EXCEPT ![h] = 0]
    /\ pc' = [pc EXCEPT ![h] = "scan"]
    /\ attempts' = [attempts EXCEPT ![h] = << >>]
    /\ inUse0' = [inUse0 EXCEPT ![h] =
                     [s \in AllServers |-> InUseCount(Entry(pool, s))]]
    /\ UNCHANGED <<io, outside>>
    /\ UNCHANGED <<counter, pool, up, nextSock, accepted, server_addr,
                   server_stream, selLog, nAcquired, evicted, broken, released,
                   owner, changes>>

\* One iteration of `for i in 0..servers.len()`: the acquire on the candidate,
\* then either the cursor write and `return Some(server.clone())` (the stream
\* bound to `_` is dropped), or the next iteration, or `None` after the lap.
ScanStep(h) ==
    /\ pc[h] = "scan"
    /\ LET index  == CandidateIndex(start_index[h], scan_i[h])
           server == ServerAt(index)
           r      == get_connection(Entry(pool, server), server \in up,
                                    server \in up, nextSock)
       IN  /\ pool' = (server :> r.conns) @@ pool
           /\ nextSock' = IF r.opened THEN nextSock + 1 ELSE nextSock
           /\ evicted' = evicted \cup r.removed
           /\ owner' = [owner EXCEPT ![server] =
                            OwnersAfterGet(@, Entry(pool, server), server \in up, r)]
           /\ attempts' = [attempts EXCEPT ![h] = Append(@, <<index, r.ok>>)]
           /\ counter' = CursorAfter(counter, index, r.ok)
           /\ IF r.ok
              THEN /\ server_addr' = [server_addr EXCEPT ![h] = server]
                   /\ selLog' = Append(selLog, index)
                   /\ nAcquired' = [nAcquired EXCEPT ![h] = @ + 1]
                   /\ locks' = DropGuards(h)
                   /\ pc' = [pc EXCEPT ![h] = "acquire"]
                   /\ UNCHANGED scan_i
              ELSE /\ UNCHANGED <<server_addr, selLog, nAcquired>>
                   /\ IF scan_i[h] + 1 < N
                      THEN /\ scan_i' = [scan_i EXCEPT ![h] = @ + 1]
                           /\ UNCHANGED <<locks, pc>>
                      ELSE /\ locks' = DropGuards(h)
                           /\ pc' = [pc EXCEPT ![h] = "send503"]
                           /\ UNCHANGED scan_i
    /\ UNCHANGED <<io, outside>>
    /\ UNCHANGED <<up, accepted, start_index, server_stream, inUse0, broken,
                   released, changes>>

\* ------------------------------------------------------ handle_connection

\* The listener accepts the next connection and spawns its handler thread
\* (in the lowest free slot); cap is the number of handlers that may be in
\* flight together, total the number of connections the run accepts.
Accept(h, cap, total) ==
    /\ pc[h] \in Terminal \cup {"idle"}
    /\ \A g \in 1..(h - 1) : g \in InFlight
    /\ accepted < total
    /\ Cardinality(InFlight) < cap
    /\ accepted' = accepted + 1
    /\ pc' = [pc EXCEPT ![h] = "read"]
    /\ \E msg \in payloads : io' = [io EXCEPT ![h] = [NoIo EXCEPT !.sent = msg]]
    /\ start_index' = [start_index EXCEPT ![h] = 0]
    /\ scan_i' = [scan_i EXCEPT ![h] = 0]
    /\ server_addr' = [server_addr EXCEPT ![h] = ""]
    /\ server_stream' = [server_stream EXCEPT ![h] = NoSock]
    /\ attempts' = [attempts EXCEPT ![h] = << >>]
    /\ nAcquired' = [nAcquired EXCEPT ![h] = 0]
    /\ inUse0' = [inUse0 EXCEPT ![h] = [s \in AllServers |-> 0]]
    /\ UNCHANGED outside
    /\ UNCHANGED <<counter, pool, locks, up, nextSock, selLog, evicted, broken,
                   released, owner, changes>>

\* client_stream.read(&mut buffer)?; bytes_read == 0 returns Err.
ReadRequest(h) ==
    /\ pc[h] = "read"
    /\ \E outcome \in {"bytes", "zero", "error"} :
          IF outcome = "bytes"
          THEN /\ pc' = [pc EXCEPT ![h] = "lock_servers"]
               /\ \E bytes_read \in ReadSizes(Len(io[h].sent)) :
                     io' = [io EXCEPT ![h].buffer = SubSeq(io[h].sent, 1, bytes_read)]
          ELSE /\ pc' = [pc EXCEPT ![h] = "failed"]
               /\ UNCHANGED io
    /\ UNCHANGED outside
    /\ UNCHANGED <<counter, pool, locks, up, nextSock, accepted, start_index,
                   scan_i, server_addr, server_stream, hist, changes>>

\* let mut server_stream = pool.lock().unwrap().get_connection(&server_addr)?;
Acquire(h) ==
    /\ pc[h] = "acquire"
    /\ CanLock("pool")
    /\ LET server == server_addr[h]
           r      == get_connection(Entry(pool, server), server \in up,
                                    server \in up, nextSock)
       IN  /\ pool' = (server :> r.conns) @@ pool
           /\ nextSock' = IF r.opened THEN nextSock + 1 ELSE nextSock
           /\ evicted' = evicted \cup r.removed
           /\ owner' = [owner EXCEPT ![server] =
                            OwnersAfterGet(@, Entry(pool, server), server \in up, r)]
           /\ server_stream' = [server_stream EXCEPT ![h] = r.socket]
           /\ io' = [io EXCEPT ![h].got = IF r.ok /\ ~r.opened THEN HealthRequest
                                                               ELSE << >>]
           /\ nAcquired' = [nAcquired EXCEPT ![h] = IF r.ok THEN @ + 1 ELSE @]
           /\ pc' = [pc EXCEPT ![h] = IF r.ok THEN "write" ELSE "failed"]
    /\ UNCHANGED outside
    /\ UNCHANGED <<counter, locks, up, accepted, start_index, scan_i,
                   server_addr, selLog, attempts, inUse0, broken, released,
                   changes>>

\* Variant: the error path hands the stream back to the pool.
ReleaseOnFailure(p, server, stream) == release_connection(p, server, stream, TRUE)

\* What an early `?` return (or the empty-response Err) of the forward steps
\* does to the pool: nothing; server_stream is dropped.
OnForwardFailure(p, server, stream) == p

\* A forward step of handler h fails: the handler returns Err.
ForwardFails(h) ==
    /\ pool' = OnForwardFailure(pool, server_addr[h], server_stream[h])
    /\ broken' = broken \cup {server_stream[h].id}
    /\ server_stream' = [server_stream EXCEPT ![h] = NoSock]
    /\ pc' = [pc EXCEPT ![h] = "failed"]

\* server_stream.write_all(&buffer[..bytes_read])?;
Forward(h) ==
    /\ pc[h] = "write"
    /\ \E ok \in BOOLEAN :
          IF ok THEN /\ pc' = [pc EXCEPT ![h] = "collect"]
                     /\ io' = [io EXCEPT ![h].got = @ \o Forwarded(io[h].buffer)]
                     /\ UNCHANGED <<pool, broken, server_stream>>
                ELSE ForwardFails(h) /\ UNCHANGED io
    /\ UNCHANGED outside
    /\ UNCHANGED <<counter, locks, up, nextSock, accepted, start_index, scan_i,
                   server_addr, selLog, attempts, nAcquired, inUse0, evicted,
                   released, owner, changes>>

\* server_stream.read_to_end(&mut response)?; Ok only once the backend has
\* closed its end (end-of-stream); a deadline is an Err; an empty response
\* is turned into an Err.
Collect(h) ==
    /\ pc[h] = "collect"
    /\ \E outcome \in {"data", "empty", "error"} :
          IF outcome = "data"
          THEN /\ server_stream' = [server_stream EXCEPT ![h].eof = TRUE]
               /\ pc' = [pc EXCEPT ![h] = "relay"]
               /\ \E msg \in responses : io' = [io EXCEPT ![h].response = msg]
               /\ UNCHANGED <<pool, broken>>
          ELSE ForwardFails(h) /\ UNCHANGED io
    /\ UNCHANGED outside
    /\ UNCHANGED <<counter, locks, up, nextSock, accepted, start_index, scan_i,
                   server_addr, selLog, attempts, nAcquired, inUse0, evicted,
                   released, owner, changes>>

\* client_stream.write_all(&response)?; client_stream.flush()?;
Relay(h) ==
    /\ pc[h] = "relay"
    /\ \E ok \in BOOLEAN :
          IF ok THEN /\ pc' = [pc EXCEPT ![h] = "release"]
                     /\ io' = [io EXCEPT ![h].recv = io[h].response]
                     /\ UNCHANGED <<pool, broken, server_stream>>
                ELSE ForwardFails(h) /\ UNCHANGED io
    /\ UNCHANGED outside
    /\ UNCHANGED <<counter, locks, up, nextSock, accepted, start_index, scan_i,
                   server_addr, selLog, attempts, nAcquired, inUse0, evicted,
                   released, owner, changes>>

\* Variant: the pool is given a clone and the handler keeps its handle.
Cloned(stream) == stream

\* server_stream is passed by value: the handler no longer owns it.
Moved(stream) == NoSock

\* pool.lock().unwrap().release_connection(&server_addr, server_stream);
Release(h) ==
    /\ pc[h] = "release"
    /\ CanLock("pool")
    /\ \E addrOk \in BOOLEAN :
          LET p == release_connection(pool, server_addr[h], server_stream[h], addrOk)
          IN  /\ pool' = p
              /\ released' = IF p # pool
                             THEN [released EXCEPT ![server_addr[h]] = server_stream[h].id]
                             ELSE released
              /\ owner' = IF p # pool
                          THEN [owner EXCEPT ![server_addr[h]] = Tail(@)]
                          ELSE owner
    /\ server_stream' = [server_stream EXCEPT ![h] = Moved(@)]
    /\ pc' = [pc EXCEPT ![h] = "done"]
    /\ UNCHANGED <<io, outside>>
    /\ UNCHANGED <<counter, locks, up, nextSock, accepted, start_index, scan_i,
                   server_addr, selLog, attempts, nAcquired, inUse0, evicted,
                   broken, changes>>

\* send_error_response(&mut client_stream, ..)?: the 503 is written or the
\* write fails.
Send503(h) ==
    /\ pc[h] = "send503"
    /\ \E ok \in BOOLEAN :
          pc' = [pc EXCEPT ![h] = IF ok THEN "unavailable" ELSE "failed"]
    /\ UNCHANGED <<io, outside>>
    /\ UNCHANGED <<counter, pool, locks, up, nextSock, accepted, start_index,
                   scan_i, server_addr, server_stream, hist, changes>>

\* ------------------------------------------------------------ environment

\* Backends start or stop accepting connections.
BackendChange ==
    /\ changes < MaxChanges
    /\ \E S \in SUBSET AllServers :
          /\ S # up
          /\ up' = S
    /\ changes' = changes + 1
    /\ UNCHANGED <<io, outside>>
    /\ UNCHANGED <<pc, counter, pool, locks, nextSock, accepted, start_index,
                   scan_i, server_addr, server_stream, hist>>

\* ------------------------------------------------------- specifications

Step(h) ==
    \/ ReadRequest(h)
    \/ LockServers(h)
    \/ LockCounter(h)
    \/ LockPool(h)
    \/ ScanStep(h)
    \/ Acquire(h)
    \/ Forward(h)
    \/ Collect(h)
    \/ Relay(h)
    \/ Release(h)
    \/ Send503(h)

\* Handlers run concurrently, at most MaxInFlight at a time.
Next ==
    \/ \E h \in Handlers : Accept(h, MaxInFlight, MaxRequests)
    \/ \E h \in Handlers : Step(h)
    \/ BackendChange

Spec == Init /\ [][Next]_vars

\* Requests handled strictly one after another: a connection is accepted only
\* when no handler is in flight.
NextSeq ==
    \/ \E h \in Handlers : Accept(h, 1, MaxSeqRequests)
    \/ \E h \in Handlers : Step(h)
    \/ BackendChange

SpecSeq == Init /\ [][NextSeq]_vars

\* Requests handled one after another, with every request and response the
\* environment can produce.
NextBytes ==
    \/ \E h \in Handlers : Accept(h, 1, MaxByteRequests)
    \/ \E h \in Handlers : Step(h)
    \/ BackendChange

SpecBytes == InitBytes /\ [][NextBytes]_vars

\* -------------------------------------------- pool operations on their own

program == <<pc, counter, pool, locks, up, nextSock, accepted, start_index,
             scan_i, server_addr, server_stream, hist, changes, io>>

\* pool.get_connection(server) on the collection of the call.
CallGet ==
    /\ call.op = "get"
    /\ ret = NoRet
    /\ ret' = get_connection(call.conns, call.answers, call.connects, NewId)
    /\ UNCHANGED <<program, payloads, responses, call>>

\* The pool release_connection is called on, and the stream it is given.
CallPool == IF call.tracked THEN (servers[1] :> call.conns) ELSE << >>

CallStream == [id |-> NewId, eof |-> TRUE]

\* pool.release_connection(server, stream) on the pool of the call.
CallRelease ==
    /\ call.op = "release"
    /\ ret = NoRet
    /\ ret' = [pool |-> release_connection(CallPool, servers[1], CallStream,
                                           call.addrOk)]
    /\ UNCHANGED <<program, payloads, responses, call>>

NextPool ==
    \/ CallGet
    \/ CallRelease

SpecPool == InitPool /\ [][NextPool]_vars

\* The concurrent run with fewer connections, for the progress properties.
NextFair ==
    \/ \E h \in Handlers : Accept(h, MaxInFlight, MaxFairRequests)
    \/ \E h \in Handlers : Step(h)
    \/ BackendChange

\* Every handler is a thread of its own (thread::spawn): a handler that can
\* take a step is eventually scheduled.
SpecFair ==
    /\ Init
    /\ [][NextFair]_vars
    /\ \A h \in Handlers : WF_vars(Step(h))


\* ------------------------------------------------------------------ claims

\* A handler that owns a backend stream.
Holds(h) == server_stream[h].id # 0

\* Ids of all sockets stored as idle entries of the pool.
PoolIdleIds == UNION {IdleIds(pool[s]) : s \in DOMAIN pool}

\* Handlers that have been given a backend by the selector and have not returned.
Serving == {h \in Handlers : pc[h] \in {"acquire", "write", "collect", "relay", "release"}}

\* C1 (round-robin fairness): with all backends reachable throughout and the
\* requests handled one after another, the k-th selection (k counted from 0)
\* returns the backend at index (start + k) mod N, start being the cursor's
\* initial value modulo N.
C1_RoundRobin ==
    changes = 0 =>
        \A k \in 1..Len(selLog) : selLog[k] = ((StartCursor % N) + (k - 1)) % N

\* C1 witness: a fourth sequential selection, all backends up, wrapped around
\* to the first backend.
C1_Witness ==
    /\ changes = 0
    /\ Len(selLog) = N + 1
    /\ selLog[N + 1] = StartCursor % N

\* The acquires of handler h's selection so far walk the lap in order from the
\* cursor position it read, and all but possibly the last one failed.
LapOrder(h) ==
    /\ \A k \in 1..Len(attempts[h]) :
          attempts[h][k][1] = (start_index[h] + (k - 1)) % N
    /\ \A k \in 1..(Len(attempts[h]) - 1) : ~attempts[h][k][2]

\* C2 (failover): a selection tries the backends in the order cursor mod N,
\* cursor + 1 mod N, ... for one lap; it returns the first one whose acquire
\* succeeds; the next selection starts one position after the backend that
\* was returned; it returns None exactly when every acquire of the lap failed.
C2_Failover ==
    \A h \in Handlers :
        /\ pc[h] \in {"scan", "acquire", "send503"} => LapOrder(h)
        /\ pc[h] = "scan" =>
              /\ Len(attempts[h]) < N
              /\ \A k \in 1..Len(attempts[h]) : ~attempts[h][k][2]
              /\ start_index[h] = (IF selLog = << >> THEN StartCursor
                                   ELSE selLog[Len(selLog)] + 1) % N
        /\ pc[h] = "acquire" =>
              /\ attempts[h] # << >>
              /\ attempts[h][Len(attempts[h])][2]
              /\ server_addr[h] = ServerAt(attempts[h][Len(attempts[h])][1])
        /\ pc[h] = "send503" =>
              /\ Len(attempts[h]) = N
              /\ \A k \in 1..N : ~attempts[h][k][2]

\* C2 witness: a selection that skipped two unreachable backends, returned the
\* third, and left the cursor one position after it.
C2_Witness ==
    \E h \in Handlers :
        /\ pc[h] = "acquire"
        /\ Len(attempts[h]) = N
        /\ counter % N = (attempts[h][N][1] + 1) % N

\* C3 (pool reuse), as claimed: with the requests handled one after another
\* and every backend reachable throughout, a request served by a backend that
\* released a socket to the pool earlier is forwarded over that socket.
C3_PoolReuse ==
    \A h \in Handlers :
        (/\ pc[h] = "write"
         /\ changes = 0
         /\ released[server_addr[h]] # 0)
        => server_stream[h].id = released[server_addr[h]]

\* C4 (selection is the acquisition), as claimed: a handler that forwards has
\* made exactly one successful acquire on the pool for its backend.
C4_SingleAcquire ==
    \A h \in Handlers :
        pc[h] \in {"write", "collect", "relay", "release"} => nAcquired[h] = 1

\* C5 (sockets are never shared): no socket is owned by two handlers, and a
\* socket owned by a handler is not stored as an idle entry of the pool.
C5_NotShared ==
    \A h \in Handlers :
        Holds(h) =>
            /\ \A g \in Handlers \ {h} : server_stream[g].id # server_stream[h].id
            /\ server_stream[h].id \notin PoolIdleIds

\* C5 witness: a handler owns a stream to a backend while the pool stores an
\* idle socket of the same backend, released by another handler.
C5_Witness ==
    \E h \in Handlers :
        /\ Holds(h)
        /\ pc[h] \in {"write", "collect", "relay", "release"}
        /\ IdleIds(Entry(pool, server_addr[h])) # {}


\* C6 (in-use entries match owners), as claimed: for every backend the number
\* of in-use entries equals the number of in-flight handlers that have been
\* handed a connection to it and have not returned.
C6_InUseMatchesHolders ==
    \A s \in AllServers :
        InUseCount(Entry(pool, s)) = Cardinality({h \in Serving : server_addr[h] = s})

\* No pool entry and no handler has a socket that was removed after a failed
\* liveness probe.
EvictedGone ==
    /\ evicted \cap PoolIdleIds = {}
    /\ \A h \in Handlers : server_stream[h].id \notin evicted

\* An acquire by handler h (in its selection or at line 141) that evicted an
\* idle entry and succeeded opened a new connection, and the handler's own
\* acquire returns exactly that new stream.
EvictThenFresh(h) ==
    (/\ evicted' # evicted
     /\ \/ pc[h] = "scan" /\ pc'[h] = "acquire"
        \/ pc[h] = "acquire" /\ pc'[h] = "write")
    => /\ nextSock' = nextSock + 1
       /\ pc'[h] = "write" => server_stream'[h] = [id |-> nextSock, eof |-> FALSE]

\* C7 (eviction on failure): an idle entry whose probe fails during
\* get_connection is removed from the collection and its socket is never
\* handed out afterwards; when no idle entry passes its probe, a successful
\* acquire is served by a newly opened connection.
C7_Eviction ==
    /\ [](EvictedGone)
    /\ [][\A h \in Handlers : EvictThenFresh(h)]_vars

\* C7 witness: a handler forwards over a newly opened stream after idle
\* sockets of its backend were evicted.
C7_Witness ==
    \E h \in Handlers :
        /\ pc[h] = "write"
        /\ evicted # {}
        /\ released[server_addr[h]] \in evicted

\* C8 (no leak on forward failure): a socket whose handler failed while
\* forwarding, collecting the response (error or empty response) or relaying
\* is never stored as an idle entry of the pool and is owned by no handler.
C8_NoLeak ==
    /\ broken \cap PoolIdleIds = {}
    /\ \A h \in Handlers : server_stream[h].id \notin broken

\* C8 witness: a forward failure has happened and the pool stores an idle
\* socket of the backend the failed handler was using.
C8_Witness ==
    \E h \in Handlers :
        /\ pc[h] = "failed"
        /\ server_addr[h] # ""
        /\ broken # {}
        /\ IdleIds(Entry(pool, server_addr[h])) # {}

\* The step by which handler h's selection returns None.
ReturnsNone(h) == pc[h] = "scan" /\ pc'[h] = "send503"

\* C9 (all-down): while every backend refuses connections a selection never
\* returns a backend; when the selection returns None the pool holds no idle
\* entry for any backend and no in-use entry more than when the selection
\* began; the handler then writes the 503 response and terminates.
C9_AllDown ==
    [][\A h \in Handlers :
          /\ (pc[h] = "scan" /\ up = {} /\ up' = {}) => pc'[h] \in {"scan", "send503"}
          /\ ReturnsNone(h) =>
                /\ \A s \in DOMAIN pool' : IdleIds(pool'[s]) = {}
                /\ \A s \in AllServers : InUseCount(Entry(pool', s)) = inUse0[h][s]
          /\ (pc[h] = "send503" /\ pc'[h] # "send503") =>
                pc'[h] \in {"unavailable", "failed"}]_vars

\* C9 witness: a handler has answered 503 after a lap over all backends in
\* which idle sockets were evicted; every backend is down and the pool has a
\* collection for each of them, none with an idle entry.
C9_Witness ==
    \E h \in Handlers :
        /\ pc[h] = "unavailable"
        /\ up = {}
        /\ evicted # {}
        /\ DOMAIN pool = AllServers
        /\ PoolIdleIds = {}

\* While handler h is between its read and its write of the cursor, a step of
\* another handler is no lock acquisition, selection step, acquire or release
\* and changes neither the cursor nor the pool.
Exclusive(h) ==
    pc[h] = "scan" =>
        \A g \in Handlers \ {h} :
            pc'[g] # pc[g] =>
                /\ pc[g] \notin {"lock_servers", "lock_counter", "lock_pool",
                                 "scan", "acquire", "release"}
                /\ pool' = pool
                /\ counter' = counter

\* C10 (selections are mutually exclusive): under any interleaving no step of
\* another handler that touches the cursor or the pool occurs during a
\* selection, and with all backends reachable throughout the backends
\* returned by successive selections follow consecutive rotation positions.
C10_Serialized ==
    /\ [][\A h \in Handlers : Exclusive(h)]_vars
    /\ [](changes = 0 =>
            \A k \in 1..(Len(selLog) - 1) : selLog[k + 1] = (selLog[k] + 1) % N)

\* C10 witness: one handler is inside its selection while the other waits to
\* release its connection, after two selections have completed.
C10_Witness ==
    \E h \in Handlers, g \in Handlers :
        /\ pc[h] = "scan"
        /\ pc[g] = "release"
        /\ changes = 0
        /\ Len(selLog) = 2


\* Ids of the streams whose in-use entries are still marked in-use.
Owners(s) == {owner[s][k] : k \in 1..Len(owner[s])}

\* C11 (release marks its own entry), as claimed: release_connection turns
\* idle the in-use entry that was made when the released stream was handed
\* out, so a stream stored as an idle entry never still has its own entry
\* marked in-use.
C11_ReleaseOwnEntry ==
    \A s \in AllServers : IdleIds(Entry(pool, s)) \cap Owners(s) = {}


\* The mutexes a handler holds.
Held(h) == {l \in LockNames : locks[l] = h}

\* C12 (error containment): a handler holds a mutex only inside
\* find_available_server, so a handler that has failed (or returned in any
\* way) holds none; and once some handler has failed, every other handler in
\* flight still reaches one of its terminal states.
C12_Containment ==
    /\ [](\A h \in Handlers :
            pc[h] \notin {"lock_counter", "lock_pool", "scan"} => Held(h) = {})
    /\ \A g \in Handlers :
          (g \in InFlight /\ \E h \in Handlers \ {g} : pc[h] = "failed")
              ~> (pc[g] \in Terminal)

\* C12 witness: one handler has failed while the other is inside its
\* selection, holding the three mutexes.
C12_Witness ==
    \E h \in Handlers, g \in Handlers :
        /\ pc[h] = "failed"
        /\ pc[g] = "scan"
        /\ Held(g) = LockNames

\* Handlers past their write to the backend, and handlers past their write to
\* the client.
Forwarding == {h \in Handlers : pc[h] \in {"collect", "relay", "release", "done"}}

Relayed == {h \in Handlers : pc[h] \in {"release", "done"}}

\* C13 as stated: for every served request the backend receives exactly the
\* byte sequence the client sent, and the client receives exactly the byte
\* sequence the backend sent in response.
C13_ExactRequest ==
    /\ \A h \in Forwarding : io[h].got = io[h].sent
    /\ \A h \in Relayed : io[h].recv = io[h].response

\* C13 amended: for every served request the backend receives exactly the
\* bytes the handler got from its single read of the client, a non-empty
\* prefix of at most BufferSize bytes of what the client sent, with nothing
\* added (no probe bytes, no padding); the client receives exactly the
\* non-empty byte sequence the backend sent in response.
C13_Passthrough ==
    /\ \A h \in Forwarding :
          /\ Len(io[h].got) \in 1..Min(Len(io[h].sent), BufferSize)
          /\ io[h].got = SubSeq(io[h].sent, 1, Len(io[h].got))
    /\ \A h \in Relayed :
          /\ io[h].recv = io[h].response
          /\ io[h].response # << >>

\* C13 witness: a request longer than the buffer has been served: the backend
\* got the first BufferSize bytes, the client a two-byte response.
C13_Witness ==
    \E h \in Handlers :
        /\ pc[h] = "done"
        /\ Len(io[h].sent) > BufferSize
        /\ Len(io[h].got) = BufferSize
        /\ Len(io[h].recv) = 2

\* The largest number of handlers in flight together so far, in a run that
\* accepts a connection only when no handler is in flight.
PeakSeq == IF accepted = 0 THEN 0 ELSE 1

\* C14: for every backend the number of entries of its collection, idle plus
\* in-use, is at most the largest number of handlers that have been in flight
\* at the same time so far; with requests handled one after another that is
\* at most one entry.
C14_BoundedByDemand ==
    \A s \in AllServers : Len(Entry(pool, s)) <= PeakSeq

\* The index returned by the latest successful selection.
LastSelected == selLog[Len(selLog)]

\* C15 as stated: after a successful selection of index i the stored cursor
\* equals (i + 1) mod N, and the stored cursor is always in 0..N-1.
C15_CursorModN ==
    /\ counter \in 0..(N - 1)
    /\ selLog # << >> => counter = (LastSelected + 1) % N

\* C15 amended: after a successful selection of index i the stored cursor
\* equals i + 1, not reduced, so it lies in 0..N; the reduction happens when
\* the cursor is read: a selection starts at (stored cursor) mod N, which
\* after a selection of i is (i + 1) mod N.
C15_CursorNext ==
    /\ counter \in 0..N
    /\ selLog # << >> => counter = LastSelected + 1
    /\ \A h \in Handlers :
          pc[h] = "scan" =>
              /\ start_index[h] = counter % N
              /\ selLog # << >> => start_index[h] = (LastSelected + 1) % N

\* C15 witness: the last backend of the list was selected, the stored cursor
\* is N, and the next selection has started at index 0.
C15_Witness ==
    \E h \in Handlers :
        /\ pc[h] = "scan"
        /\ selLog # << >>
        /\ LastSelected = N - 1
        /\ counter = N
        /\ start_index[h] = 0

\* A single call of get_connection has returned; of release_connection.
GetReturned == call.op = "get" /\ ret # NoRet

ReleaseReturned == call.op = "release" /\ ret # NoRet

\* The entry at position k of the call's collection is idle and its probe
\* passes.
Passes(k) ==
    /\ call.conns[k].tag = "Idle"
    /\ check_connection_health(call.conns[k].socket, call.answers)

\* Position of the first idle entry whose probe passes, 0 when there is none.
FirstPassing ==
    IF \E k \in 1..Len(call.conns) : Passes(k)
    THEN CHOOSE k \in 1..Len(call.conns) :
            Passes(k) /\ \A j \in 1..(k - 1) : ~Passes(j)
    ELSE 0

IsInUse(e) == e.tag = "InUse"

\* The streams of the idle entries among the first n of the call's collection.
IdleAmong(n) ==
    {call.conns[j].socket.id : j \in {j \in 1..n : call.conns[j].tag = "Idle"}}

\* C16: get_connection returns the first idle entry, in insertion order,
\* whose probe passes and marks exactly that entry in-use; the idle entries
\* before it are removed, the in-use entries before it are kept, and the
\* entries after it are unchanged and in their order.
C16_ScanOrder ==
    (GetReturned /\ FirstPassing # 0) =>
        /\ ret.ok
        /\ ~ret.opened
        /\ ret.socket = call.conns[FirstPassing].socket
        /\ ret.removed = IdleAmong(FirstPassing - 1)
        /\ ret.conns = SelectSeq(SubSeq(call.conns, 1, FirstPassing - 1), IsInUse)
                          \o <<InUse>>
                          \o SubSeq(call.conns, FirstPassing + 1, Len(call.conns))

\* C16 witness: the call returned the third entry of an in-use entry, an
\* idle entry on a closed stream, an idle entry on a live stream and one
\* more idle entry on a live stream.
C16_Witness ==
    /\ GetReturned
    /\ Len(call.conns) = 4
    /\ call.conns[1].tag = "InUse"
    /\ call.conns[2].tag = "Idle"
    /\ FirstPassing = 3
    /\ Passes(4)
    /\ ret.conns = <<InUse, InUse, call.conns[4]>>

\* C17: when no idle entry passes its probe and the connect fails,
\* get_connection returns the error and adds no entry: the collection is the
\* one before the call without its idle entries, all of which failed.
C17_ConnectFails ==
    (GetReturned /\ FirstPassing = 0 /\ ~call.connects) =>
        /\ ~ret.ok
        /\ ~ret.opened
        /\ ret.socket = NoSock
        /\ ret.removed = IdleAmong(Len(call.conns))
        /\ ret.conns = SelectSeq(call.conns, IsInUse)

\* C17 witness: the call failed on a collection that held an in-use entry
\* between two idle entries.
C17_Witness ==
    /\ GetReturned
    /\ ~call.connects
    /\ ~ret.ok
    /\ Len(call.conns) = 3
    /\ call.conns[1].tag = "Idle"
    /\ call.conns[2].tag = "InUse"
    /\ call.conns[3].tag = "Idle"
    /\ ret.conns = <<InUse>>

\* The backend of the call has no collection, or a collection without an
\* in-use entry.
NothingToMatch ==
    \/ ~call.tracked
    \/ \A k \in 1..Len(call.conns) : call.conns[k].tag # "InUse"

\* C18: release_connection with nothing to match returns with the pool
\* unchanged, and the released stream is no idle entry of it.
C18_ReleaseNoMatch ==
    (ReleaseReturned /\ NothingToMatch) =>
        /\ ret.pool = CallPool
        /\ \A s \in DOMAIN ret.pool :
              \A k \in 1..Len(ret.pool[s]) : ret.pool[s][k] # Idle(CallStream)

\* C18 witness: the call returned on a collection of two idle entries.
C18_Witness ==
    /\ ReleaseReturned
    /\ call.tracked
    /\ call.addrOk
    /\ Len(call.conns) = 2
    /\ NothingToMatch

\* The locks a handler holds at each point of its selection, in the order
\* the selection takes them; none anywhere else.
HeldAt(h) ==
    IF pc[h] = "lock_counter" THEN {"servers"}
    ELSE IF pc[h] = "lock_pool" THEN {"servers", "counter"}
    ELSE IF pc[h] = "scan" THEN {"servers", "counter", "pool"}
    ELSE {}

\* C19: a selection takes the backend-list, cursor and pool locks in that
\* order and holds none once it has returned, the handler's own acquire and
\* release hold no lock across steps, and every handler in flight eventually
\* reaches a terminal state.
C19_NoDeadlock ==
    /\ [](\A h \in Handlers : Held(h) = HeldAt(h))
    /\ \A h \in Handlers : (h \in InFlight) ~> (pc[h] \in Terminal)

\* C19 witness: one handler is inside its selection with the three locks
\* while the other waits for the pool lock of its own acquire.
C19_Witness ==
    \E h \in Handlers, g \in Handlers :
        /\ pc[g] = "scan"
        /\ Held(g) = LockNames
        /\ pc[h] = "acquire"
        /\ ~CanLock("pool")

\* Handler h returns from its selection with a backend; with None.
SelectsSome(h) == pc[h] = "scan" /\ pc'[h] = "acquire"

SelectsNone(h) == pc[h] = "scan" /\ pc'[h] = "send503"

\* C20: a selection that returns None leaves the cursor unchanged, and only
\* the step by which a selection returns a backend changes the cursor.
C20_CursorWriter ==
    /\ [][\A h \in Handlers : SelectsNone(h) => counter' = counter]_vars
    /\ [][counter' # counter => \E h \in Handlers : SelectsSome(h)]_vars

\* C20 witness: after an earlier selection moved the cursor, a selection has
\* returned None and the cursor is where the earlier selection left it.
C20_Witness ==
    \E h \in Handlers :
        /\ pc[h] = "send503"
        /\ Len(attempts[h]) = N
        /\ selLog # << >>
        /\ counter = LastSelected + 1

====
